---- MODULE Spec2Model ----
(***************************************************************************)
(* Halloween event site: the two server programs of the repository         *)
(* (src/server.js, and the hardened server of src/unnamed/part_000) with   *)
(* their JSON document store, session gate, sign-in rate limiter and the   *)
(* geocode-on-save address handler.                                        *)
(*                                                                         *)
(* Time is counted in milliseconds and advances when a timer fires; all    *)
(* else takes no time, which is the least spacing the code allows.  Every  *)
(* synchronous stretch of the address handler (from one await to the next) *)
(* is one step; the geocoding answers, the timer and the store write come  *)
(* in steps of their own, at any moment.  The other routes are one step.   *)
(***************************************************************************)
EXTENDS Integers, Sequences, FiniteSets, TLC

VARIABLES
    entry,      \* which server program is running
    session,    \* req.session.user of the one browser under study
    hits,       \* authLimiter: requests counted for the browser's address in the current window
    db,         \* db.data: [addresses, rules, adminPassword]
    reqs,       \* POST /api/addresses exchanges, one record per slot
    now,        \* clock, ms
    last,       \* the last exchange of a one-step route, see Exchange
    view,       \* the body of the browser's last GET /api/addresses, see NoView
    page        \* the admin page open in the browser (public/js/rules.js), see NewPage

vars == <<entry, session, hits, db, reqs, now, last, view, page>>

\* what the admin page does not touch directly
serverVars == <<entry, session, hits, db, reqs, now, last, view>>

(***************************************************************************)
(* Bounds of the model                                                     *)
(***************************************************************************)
MaxLen == 2          \* longest submitted address list

(***************************************************************************)
(* Values                                                                  *)
(***************************************************************************)
Absent == "undefined"        \* a missing string property or form field
NoNum  == <<>>               \* a missing numeric property (lat, lon)
Num(n) == <<n>>              \* the JavaScript number n
Hang   == "none"             \* no response: the handler's promise rejected

ServerJs == "server.js"
Part000  == "part_000"

ADMIN_USERNAME  == "admin"
DefaultPassword == "password123"

\* bcrypt.hash: the stored hash is a tagged image of the password
Hash(pw) == <<"$2b$10$", pw>>

\* bcrypt.compare(data, hash) rejects when data is missing
BcryptRejects(pw) == pw = Absent

\* as BcryptCompare, but taking any password for the right one
BcryptCompare_Always(pw, stored) == TRUE

BcryptCompare(pw, stored) == stored = Hash(pw)

delay == 1000

max == 10

\* what comes back when an async handler's promise rejects: nothing (the
\* framework does not observe the promise) or the framework's own 500 page
UnhandledRejection == {Hang, "500"}

\* JavaScript truthiness: of a string property, of a numeric property
TruthyStr(s) == s \notin {Absent, ""}

TruthyNum(v) == v \notin {NoNum, Num(0)}

\* parseFloat on the decimal strings the geocoding service returns
parseFloat(s) ==
    CASE s = "0"    -> Num(0)
      [] s = "-34"  -> Num(-34)
      [] s = "146"  -> Num(146)

(***************************************************************************)
(* Addresses and the lists a client may submit                             *)
(***************************************************************************)
Address(t, la, lo, ins) == [text |-> t, lat |-> la, lon |-> lo, instructions |-> ins]

Texts == {"", "a"}
Lats  == {NoNum, Num(0), Num(-34)}
Lons  == {NoNum, Num(146)}

AddressDomain ==
    {Address(t, la, lo, Absent) : t \in Texts, la \in Lats, lo \in Lons}
        \cup {Address("a", Num(-34), Num(146), "ring twice")}

ListsOver(D) == UNION {[1..n -> D] : n \in 0..MaxLen}

\* a parsed request body { addresses: ... }
Body(list) == [isArray |-> TRUE, addresses |-> list]

NotAnArray == [isArray |-> FALSE, addresses |-> <<>>]

\* every list of the batch study
AllLists == ListsOver(AddressDomain)

\* the bodies of the route study
GateBodies == {NotAnArray, Body(<<>>), Body(<<Address("a", NoNum, NoNum, Absent)>>),
               Body(<<Address("a", Num(-34), Num(146), Absent)>>)}

\* the bodies of the concurrency study
ConcBodies ==
    {Body(<<Address("a", NoNum, NoNum, Absent), Address("a", NoNum, NoNum, "ring twice")>>),
     Body(<<Address("a", Num(-34), Num(146), Absent)>>),
     Body(<<Address("", NoNum, NoNum, Absent), Address("a", NoNum, Num(146), Absent)>>)}

\* answers of the geocoding service: candidate matches with decimal strings,
\* or a rejected fetch / .json()
Match(la, lo) == [lat |-> la, lon |-> lo]

GeoError == [ok |-> FALSE, data |-> <<>>]

GeoData(ms) == [ok |-> TRUE, data |-> ms]

GeoOutcomes ==
    {GeoError, GeoData(<<>>), GeoData(<<Match("-34", "146")>>),
     GeoData(<<Match("0", "146"), Match("-34", "146")>>)}

\* the answers of the concurrency study
ConcOutcomes == {GeoError, GeoData(<<Match("-34", "146")>>)}

Passwords == {DefaultPassword, "trickortreat", "short"}

Usernames == {ADMIN_USERNAME, "guest"}

RulesTexts == {"", "Be kind"}

\* the files of public/ that express.static serves
PublicFiles == {"/admin.html", "/signin.html"}

Pages == PublicFiles \cup {"/missing.html"}

Min2(a, b) == IF a < b THEN a ELSE b

Max2(a, b) == IF a > b THEN a ELSE b

(***************************************************************************)
(* The two programs: middleware order and route registrations              *)
(***************************************************************************)
\* routes registered with isAuthenticated
GatedRoutes ==
    IF entry = Part000
    THEN {"/api/rules", "/api/addresses", "/admin.html", "/api/change-password"}
    ELSE {}

\* routes registered with authLimiter
LimitedRoutes == IF entry = Part000 THEN {"/signin", "/api/change-password"} ELSE {}

\* whether the program has the session middleware (req.session exists)
HasSessions == entry = Part000

\* the middleware a GET of a page runs through, in registration order
GetChain(path) ==
    IF entry = Part000
    THEN <<"static">> \o (IF path = "/admin.html" THEN <<"isAuthenticated", "sendFile">> ELSE <<>>)
    ELSE <<"static">>

\* isAuthenticated: next(), or 401 for /api/ paths, or the redirect to /signin.html
isAuthenticated(path, isApi) ==
    IF session THEN "next" ELSE IF isApi THEN "401" ELSE "302"

\* the answer of a chain of middleware to GET path
RECURSIVE RunGet(_, _)
RunGet(chain, path) ==
    IF chain = <<>> THEN "404"
    ELSE LET rest == Tail(chain) IN
         CASE Head(chain) = "static" ->
                  IF path \in PublicFiles THEN "200" ELSE RunGet(rest, path)
           [] Head(chain) = "isAuthenticated" ->
                  IF isAuthenticated(path, FALSE) = "next" THEN RunGet(rest, path)
                  ELSE isAuthenticated(path, FALSE)
           [] Head(chain) = "sendFile" -> "200"

\* authLimiter on a limited route: the request is counted, and refused past max
Counted(route) == IF route \in LimitedRoutes THEN Min2(hits + 1, max + 1) ELSE hits

\* as Limited, but refusing one request later
Limited_OneLate(route) == route \in LimitedRoutes /\ hits + 1 > max + 1

Limited(route) == route \in LimitedRoutes /\ hits + 1 > max

(***************************************************************************)
(* One-step routes                                                         *)
(***************************************************************************)
\* an exchange as logged: the request, the session and the stored hash it
\* met, the number the limiter gave it, the answer and what it left behind
Exchange(route, status, changed, after, username, password) ==
    [route |-> route, hadSession |-> session, status |-> status, changed |-> changed,
     sessionAfter |-> after, username |-> username, password |-> password,
     value |-> Absent, nth |-> IF route \in LimitedRoutes THEN Counted(route) ELSE 0,
     hashBefore |-> db.adminPassword]

NoExchange == [route |-> "none", hadSession |-> FALSE, status |-> "none", changed |-> FALSE,
               sessionAfter |-> FALSE, username |-> Absent, password |-> Absent,
               value |-> Absent, nth |-> 0, hashBefore |-> Hash(DefaultPassword)]

\* the exchange with the value its body carried: the rules text, the new password
WithValue(x, v) == [x EXCEPT !.value = v]

\* db.write(): resolves, or rejects and the handler answers as UnhandledRejection
WriteAnswer(ok) == IF ok THEN {"200"} ELSE UnhandledRejection

WriteAnswers == WriteAnswer(TRUE) \cup WriteAnswer(FALSE)

\* POST /signin
SignIn(username, password) ==
    /\ hits' = Counted("/signin")
    /\ UNCHANGED <<entry, db, reqs, now, view, page>>
    /\ IF Limited("/signin")
       THEN /\ last' = Exchange("/signin", "429", FALSE, session, username, password)
            /\ UNCHANGED session
       ELSE LET isUsernameCorrect == ADMIN_USERNAME = username IN
            IF isUsernameCorrect /\ BcryptRejects(password)
            THEN /\ \E st \in UnhandledRejection :
                       last' = Exchange("/signin", st, FALSE, session, username, password)
                 /\ UNCHANGED session
            ELSE LET isPasswordCorrect ==
                         isUsernameCorrect /\ BcryptCompare(password, db.adminPassword)
                 IN IF isUsernameCorrect /\ isPasswordCorrect
                    THEN /\ session' = IF HasSessions THEN TRUE ELSE session
                         /\ last' = Exchange("/signin", "302", FALSE, session', username, password)
                    ELSE /\ last' = Exchange("/signin", "401", FALSE, session, username, password)
                         /\ UNCHANGED session

\* POST /api/signout
SignOut ==
    /\ UNCHANGED <<entry, hits, db, reqs, now, view, page>>
    /\ IF HasSessions
       THEN /\ session' = FALSE
            /\ last' = Exchange("/api/signout", "200", FALSE, FALSE, Absent, Absent)
       ELSE /\ last' = Exchange("/api/signout", "404", FALSE, session, Absent, Absent)
            /\ UNCHANGED session

\* the session cookie's maxAge runs out
SessionExpires ==
    /\ session
    /\ session' = FALSE
    /\ UNCHANGED <<entry, hits, db, reqs, now, last, view, page>>

\* the limiter's window runs out
WindowExpires ==
    /\ hits > 0
    /\ hits' = 0
    /\ UNCHANGED <<entry, session, db, reqs, now, last, view, page>>

\* as PostRules, but storing a new document that holds the rules
PostRules_NewDocument(rules) ==
    /\ UNCHANGED <<entry, session, hits, reqs, now, view, page>>
    /\ IF "/api/rules" \in GatedRoutes /\ isAuthenticated("/api/rules", TRUE) # "next"
       THEN /\ last' = Exchange("/api/rules", isAuthenticated("/api/rules", TRUE),
                                FALSE, session, Absent, Absent)
            /\ UNCHANGED db
       ELSE IF rules # Absent
            THEN /\ db' = [addresses |-> <<>>, rules |-> rules,
                          adminPassword |-> Hash(DefaultPassword)]
                 /\ \E st \in WriteAnswers :
                       last' = WithValue(Exchange("/api/rules", st, db' # db, session, Absent, Absent),
                                         rules)
            ELSE /\ last' = Exchange("/api/rules", "400", FALSE, session, Absent, Absent)
                 /\ UNCHANGED db

\* POST /api/rules; rules = Absent stands for a body whose rules is no string
PostRules(rules) ==
    /\ UNCHANGED <<entry, session, hits, reqs, now, view, page>>
    /\ IF "/api/rules" \in GatedRoutes /\ isAuthenticated("/api/rules", TRUE) # "next"
       THEN /\ last' = Exchange("/api/rules", isAuthenticated("/api/rules", TRUE),
                                FALSE, session, Absent, Absent)
            /\ UNCHANGED db
       ELSE IF rules # Absent
            THEN /\ db' = [db EXCEPT !.rules = rules]
                 /\ \E st \in WriteAnswers :
                       last' = WithValue(Exchange("/api/rules", st, db' # db, session, Absent, Absent),
                                         rules)
            ELSE /\ last' = Exchange("/api/rules", "400", FALSE, session, Absent, Absent)
                 /\ UNCHANGED db

\* GET /api/rules
GetRules ==
    /\ last' = WithValue(Exchange("GET /api/rules", "200", FALSE, session, Absent, Absent), db.rules)
    /\ UNCHANGED <<entry, session, hits, db, reqs, now, view, page>>

MinPasswordLength == 8

\* POST /api/change-password
PostChangePassword(currentPassword, newPassword) ==
    LET route == "/api/change-password"
        reply(st) == last' = WithValue(Exchange(route, st, db' # db, session, Absent, currentPassword),
                                       newPassword)
    IN
    /\ UNCHANGED <<entry, session, reqs, now, view, page>>
    /\ IF route \in GatedRoutes /\ isAuthenticated(route, TRUE) # "next"
       THEN /\ UNCHANGED <<db, hits>>
            /\ reply(isAuthenticated(route, TRUE))
       ELSE /\ hits' = Counted(route)
            /\ IF Limited(route)
               THEN UNCHANGED db /\ reply("429")
               ELSE IF ~TruthyStr(currentPassword) \/ ~TruthyStr(newPassword)
               THEN UNCHANGED db /\ reply("400")
               ELSE IF Len(newPassword) < MinPasswordLength
               THEN UNCHANGED db /\ reply("400")
               ELSE IF ~BcryptCompare(currentPassword, db.adminPassword)
               THEN UNCHANGED db /\ reply("401")
               ELSE /\ db' = [db EXCEPT !.adminPassword = Hash(newPassword)]
                    /\ \E st \in WriteAnswers : reply(st)

\* GET of a page of the site
GetPage(path) ==
    /\ last' = Exchange(path, RunGet(GetChain(path), path), FALSE, session, Absent, Absent)
    /\ UNCHANGED <<entry, session, hits, db, reqs, now, view, page>>

\* GET /api/addresses
GetAddresses ==
    /\ view' = [fetched |-> TRUE, body |-> db.addresses]
    /\ UNCHANGED <<entry, session, hits, db, reqs, now, last, page>>

NoView == [fetched |-> FALSE, body |-> <<>>]

(***************************************************************************)
(* POST /api/addresses: gate, validation, geocode loop, store, answer      *)
(***************************************************************************)
Idle == [pc |-> "idle", hadSession |-> FALSE, body |-> NotAnArray, list |-> <<>>, i |-> 0,
         calls |-> <<>>, timer |-> 0, written |-> FALSE, status |-> "none"]

\* the loop's test: the address has text but no coordinates
needsGeocoding(address) ==
    TruthyStr(address.text) /\ (~TruthyNum(address.lat) \/ ~TruthyNum(address.lon))

\* the first position from `from` on whose address the loop geocodes, 0 if none
NextToGeocode(list, from) ==
    LET todo == {k \in from..Len(list) : needsGeocoding(list[k])}
    IN IF todo = {} THEN 0 ELSE CHOOSE k \in todo : \A j \in todo : k <= j

\* a geocode call as logged: the position it is for, when it was made, and
\* its answer once it has one
Call(k, t) == [idx |-> k, at |-> t, answered |-> FALSE, out |-> GeoError]

Answered(r, out) ==
    [r EXCEPT !.calls[Len(r.calls)].answered = TRUE, !.calls[Len(r.calls)].out = out]

\* the loop from position `from` at time t up to its next await: the fetch of
\* the next address to geocode, or, past the last address, the store write
Advance(r, from, t) ==
    LET k == NextToGeocode(r.list, from) IN
    IF k # 0
    THEN [r EXCEPT !.pc = "fetch", !.i = k, !.calls = Append(@, Call(k, t))]
    ELSE [r EXCEPT !.pc = "write", !.i = Len(r.list) + 1]

\* as StoreAddresses, but assigning the list before the loop is over
StoreAddresses_BeforeLoopEnds(r, data) ==
    IF r.pc \in {"fetch", "delay", "write"} THEN [data EXCEPT !.addresses = r.list] ELSE data

\* db.data.addresses = addresses, once the loop is over
StoreAddresses(r, data) ==
    IF r.pc = "write" THEN [data EXCEPT !.addresses = r.list] ELSE data

\* the geocoding answer applied to the address: lat/lon of the first match
ApplyGeoData(address, geoData) ==
    IF Len(geoData) > 0
    THEN [address EXCEPT !.lat = parseFloat(geoData[1].lat), !.lon = parseFloat(geoData[1].lon)]
    ELSE address

\* as AfterGeoError, but with the try around the whole loop: the first
\* rejected fetch ends the loop
AfterGeoError_LeavesLoop(r) == [r EXCEPT !.pc = "write", !.i = Len(r.list) + 1]

\* what follows a rejected fetch: the catch block, then the next iteration
AfterGeoError(r) == Advance(r, r.i + 1, now)

\* what follows an answer: the coordinates are set and delay(1000) starts
AfterGeoData(r, geoData) ==
    [r EXCEPT !.list[r.i] = ApplyGeoData(@, geoData), !.pc = "delay", !.timer = now]

\* the request arrives: isAuthenticated, Array.isArray, the loop up to its first await
PostAddresses(s, body) ==
    /\ reqs[s].pc = "idle"
    /\ LET route == "/api/addresses"
           r0 == [Idle EXCEPT !.hadSession = session, !.body = body, !.list = body.addresses]
           r1 == IF route \in GatedRoutes /\ isAuthenticated(route, TRUE) # "next"
                 THEN [r0 EXCEPT !.pc = "done", !.status = isAuthenticated(route, TRUE)]
                 ELSE IF ~body.isArray
                 THEN [r0 EXCEPT !.pc = "done", !.status = "400"]
                 ELSE Advance(r0, 1, now)
       IN /\ reqs' = [reqs EXCEPT ![s] = r1]
          /\ db' = StoreAddresses(r1, db)
    /\ UNCHANGED <<entry, session, hits, now, last, view, page>>

\* the geocoding service answers, or the fetch fails
GeocodeResponse(s, out) ==
    /\ reqs[s].pc = "fetch"
    /\ LET r0 == Answered(reqs[s], out)
           r1 == IF out.ok THEN AfterGeoData(r0, out.data) ELSE AfterGeoError(r0)
       IN /\ reqs' = [reqs EXCEPT ![s] = r1]
          /\ db' = StoreAddresses(r1, db)
    /\ UNCHANGED <<entry, session, hits, now, last, view, page>>

\* the timer of delay(1000) fires
DelayElapsed(s) ==
    /\ reqs[s].pc = "delay"
    /\ now' = Max2(now, reqs[s].timer + delay)
    /\ LET r1 == Advance(reqs[s], reqs[s].i + 1, now')
       IN /\ reqs' = [reqs EXCEPT ![s] = r1]
          /\ db' = StoreAddresses(r1, db)
    /\ UNCHANGED <<entry, session, hits, last, view, page>>

\* db.write() settles and the request is answered
WriteDone(s, ok, st) ==
    /\ reqs[s].pc = "write"
    /\ st \in WriteAnswer(ok)
    /\ reqs' = [reqs EXCEPT ![s].pc = "done", ![s].written = ok, ![s].status = st]
    /\ UNCHANGED <<entry, session, hits, db, now, last, view, page>>

(***************************************************************************)
(* The admin page (public/js/rules.js): its working list, what is on the   *)
(* screen, and its requests on the way.  Positions count from 1 here, from *)
(* 0 in the script; position 0 stands for the script's -1.  A list sent or *)
(* received as JSON is the list itself: an undefined property is left out  *)
(* of the text, which is how Absent and NoNum are read.                    *)
(***************************************************************************)
\* locationSuffix of the add form, and of handleEdit (with a leading space)
AddLocationSuffix == "ardlethan nsw 2665"

locationSuffix == " ardlethan nsw 2665"

\* the spellings s with s.toLowerCase() = locationSuffix
SuffixSpellings == {locationSuffix}

\* the strings without white space around them that inputs and street parts
\* are made of, and such a string with white space around it
Words == {"", "1 Elm", "9 Oak", "7 Ash", "ring twice"}

Padded(w) == {w, w \o " ", " " \o w, " " \o w \o " "}

\* String.prototype.trim
Trim(s) == CHOOSE w \in Words : s \in Padded(w)

\* s || undefined, s || ''
OrUndefined(s) == IF s = "" THEN Absent ELSE s

OrEmpty(s) == IF s = Absent THEN "" ELSE s

\* what the text is made of when it ends with the suffix: the part before it
BeforeSuffix(text) ==
    {b \in UNION {Padded(w) : w \in Words} : \E x \in SuffixSpellings : text = b \o x}

\* handleEdit: the street part shown in the edit box, the suffix stripped
\* for as long as the text ends with it
RECURSIVE StreetPart(_)
StreetPart(fullAddress) ==
    IF BeforeSuffix(fullAddress) # {}
    THEN StreetPart(Trim(CHOOSE b \in BeforeSuffix(fullAddress) : TRUE))
    ELSE fullAddress

\* as AddedEntry, but with the street alone as text
AddedEntry_WithoutSuffix(streetAddress, instructions) ==
    Address(streetAddress, NoNum, NoNum, OrUndefined(instructions))

\* the entry the add form pushes
AddedEntry(streetAddress, instructions) ==
    Address(streetAddress \o " " \o AddLocationSuffix, NoNum, NoNum, OrUndefined(instructions))

\* as EditedEntry, but never deleting lat and lon
EditedEntry_KeepsCoordinates(address, newStreetPart, newInstructions) ==
    [address EXCEPT !.text = newStreetPart \o " " \o locationSuffix,
                    !.instructions = OrUndefined(newInstructions)]

\* the entry as the Save button of the edit form leaves it
EditedEntry(address, newStreetPart, newInstructions) ==
    LET newAddressText == newStreetPart \o " " \o locationSuffix
        cleared == IF newAddressText # address.text
                   THEN [address EXCEPT !.lat = NoNum, !.lon = NoNum]
                   ELSE address
    IN [cleared EXCEPT !.text = newAddressText, !.instructions = OrUndefined(newInstructions)]

\* as Splice, but removing the entry before the chosen one as well
Splice_TwoEntries(list, i) == SubSeq(list, 1, i - 2) \o SubSeq(list, i + 1, Len(list))

\* currentAddresses.splice(index, 1)
Splice(list, i) == SubSeq(list, 1, i - 1) \o SubSeq(list, i + 1, Len(list))

\* the marker of the location picker: null, or at a position
NoMarker == [lat |-> NoNum, lon |-> NoNum]

MarkerAt(la, lo) == [lat |-> la, lon |-> lo]

\* the entry with the marker's position
Located(address, marker) == [address EXCEPT !.lat = marker.lat, !.lon = marker.lon]

\* currentAddresses[index] of a position the list does not have
NoAddress == Address(Absent, NoNum, NoNum, Absent)

\* the edit form of a row: none, or open on a position with its two inputs
\* as handleEdit filled them
NoForm == [index |-> 0, street |-> "", instructions |-> ""]

\* a save (POST) of the page: not made, or where it is, the body it went
\* out with, and the gesture that made it as logged: the control, the
\* position, the inputs as typed, the answer to the confirm() dialog
NoSave == [pc |-> "none", body |-> NotAnArray, kind |-> "none", index |-> 0,
           street |-> "", instructions |-> "", confirmed |-> FALSE]

\* a fetch (GET) of the page: not made, or where it is, and the body on its way
NoFetch == [pc |-> "none", body |-> <<>>]

\* the page as the script leaves it at DOMContentLoaded: an empty working
\* list, nothing rendered, the first fetchAddresses() on its way.  Of the
\* picker it keeps, besides editingIndex and currentMarker, the entry it was
\* opened for (const address) and whether the map was clicked since
NewPage(slots) ==
    [currentAddresses |-> <<>>, rows |-> <<>>, form |-> NoForm,
     modal |-> FALSE, editingIndex |-> 0, currentMarker |-> NoMarker,
     address |-> NoAddress, picked |-> FALSE,
     saves |-> [s \in slots |-> NoSave],
     fetches |-> [f \in slots \cup {0} |-> IF f = 0 THEN [NoFetch EXCEPT !.pc = "sent"] ELSE NoFetch]]

(***************************************************************************)
(* Specifications                                                          *)
(***************************************************************************)
\* startup: the default document, its plaintext password hashed
DefaultData == [addresses |-> <<>>, rules |-> "", adminPassword |-> Hash(DefaultPassword)]

Started(slots, data, signedIn) ==
    /\ entry \in {ServerJs, Part000}
    /\ session = (signedIn /\ HasSessions)
    /\ hits = 0
    /\ db = data
    /\ reqs = [s \in slots |-> Idle]
    /\ now = 0
    /\ last = NoExchange
    /\ view = NoView
    /\ page = NewPage(slots)

Slots == DOMAIN reqs

AddressSteps(outcomes) ==
    \/ \E s \in Slots, out \in outcomes : GeocodeResponse(s, out)
    \/ \E s \in Slots : DelayElapsed(s)
    \/ \E s \in Slots, ok \in BOOLEAN, st \in WriteAnswers : WriteDone(s, ok, st)

(***************************************************************************)
(* The admin page: gestures, and the answers to its requests               *)
(***************************************************************************)
\* the inputs of the study: what is typed into the add form and the edit
\* form, and where the map is clicked
StreetInputs == {"", " ", "7 Ash "}

InstructionInputs == {"", "ring twice "}

MapClicks == {MarkerAt(Num(-35), Num(147))}

\* the save slot the next saveAddresses() takes, 0 when all are used
FreeSlot ==
    LET free == {s \in Slots : page.saves[s].pc = "none"}
    IN IF free = {} THEN 0 ELSE CHOOSE s \in free : \A t \in free : s <= t

\* saveAddresses() up to its first await: the working list goes out as it is
Saving(p, kind, i, street, instructions, confirmed) ==
    [p EXCEPT !.saves[FreeSlot] = [pc |-> "sent", body |-> Body(p.currentAddresses), kind |-> kind,
                                   index |-> i, street |-> street, instructions |-> instructions,
                                   confirmed |-> confirmed]]

\* renderAddresses(): one row per entry, no edit form
Rendered(p) == [p EXCEPT !.rows = p.currentAddresses, !.form = NoForm]

\* the row has its Set Location, Edit and Delete buttons
HasButtons(i) == i \in 1..Len(page.rows) /\ i # page.form.index

\* the position exists in the working list; a handler that reads a property
\* of currentAddresses[index] throws when it does not
InList(i) == i \in 1..Len(page.currentAddresses)

\* the add form is submitted
AddAddress(street, instructions) ==
    /\ ~page.modal
    /\ LET streetAddress == Trim(street)
           pushed == [page EXCEPT !.currentAddresses =
                          Append(@, AddedEntry(streetAddress, Trim(instructions)))]
       IN IF TruthyStr(streetAddress)
          THEN /\ FreeSlot # 0
               /\ Len(page.currentAddresses) < MaxLen
               /\ page' = Saving(pushed, "add", 0, street, instructions, TRUE)
          ELSE UNCHANGED page
    /\ UNCHANGED serverVars

\* Edit is clicked on a row: handleEdit(index)
HandleEdit(i) ==
    /\ ~page.modal
    /\ HasButtons(i)
    /\ page.form.index = 0
    /\ IF InList(i)
       THEN page' = [page EXCEPT !.form =
                        [index |-> i,
                         street |-> StreetPart(page.currentAddresses[i].text),
                         instructions |-> OrEmpty(page.currentAddresses[i].instructions)]]
       ELSE UNCHANGED page
    /\ UNCHANGED serverVars

\* Save is clicked in the edit form, the inputs as filled or typed over
EditSave(street, instructions) ==
    /\ ~page.modal
    /\ page.form.index # 0
    /\ LET i == page.form.index
           edited == [page EXCEPT !.currentAddresses[i] =
                          EditedEntry(@, Trim(street), Trim(instructions))]
       IN IF InList(i)
          THEN /\ FreeSlot # 0
               /\ page' = Saving(edited, "edit", i, street, instructions, TRUE)
          ELSE UNCHANGED page
    /\ UNCHANGED serverVars

\* Cancel is clicked in the edit form
EditCancel ==
    /\ ~page.modal
    /\ page.form.index # 0
    /\ page' = Rendered(page)
    /\ UNCHANGED serverVars

\* Delete is clicked on a row and the dialog answered: handleDelete(index)
HandleDelete(i, confirmed) ==
    /\ ~page.modal
    /\ HasButtons(i)
    /\ LET spliced == [page EXCEPT !.currentAddresses = Splice(@, i)]
       IN IF InList(i) /\ confirmed
          THEN /\ FreeSlot # 0
               /\ page' = Saving(spliced, "delete", i, "", "", confirmed)
          ELSE UNCHANGED page
    /\ UNCHANGED serverVars

\* Set Location is clicked on a row: openLocationModal(index), the marker
\* put where the entry has (truthy) coordinates
OpenLocationModal(i) ==
    /\ ~page.modal
    /\ page.form.index = 0
    /\ HasButtons(i)
    /\ LET address == IF InList(i) THEN page.currentAddresses[i] ELSE NoAddress
       IN page' = [page EXCEPT
              !.editingIndex = i, !.address = address, !.modal = TRUE, !.picked = FALSE,
              !.currentMarker = IF TruthyNum(address.lat) /\ TruthyNum(address.lon)
                                THEN MarkerAt(address.lat, address.lon)
                                ELSE NoMarker]
    /\ UNCHANGED serverVars

\* the map of the picker is clicked
MapClick(latlng) ==
    /\ page.modal
    /\ page' = [page EXCEPT !.currentMarker = latlng, !.picked = TRUE]
    /\ UNCHANGED serverVars

\* the picker is closed without saving
CloseModal ==
    /\ page.modal
    /\ page' = [page EXCEPT !.modal = FALSE]
    /\ UNCHANGED serverVars

\* Save Location is clicked in the picker
SaveLocation ==
    /\ page.modal
    /\ LET i == page.editingIndex
           located == [page EXCEPT !.currentAddresses[i] = Located(@, page.currentMarker),
                                   !.modal = FALSE]
       IN IF page.currentMarker # NoMarker /\ i > 0 /\ InList(i)
          THEN /\ FreeSlot # 0
               /\ page' = Saving(located, "location", i, "", "", TRUE)
          ELSE UNCHANGED page
    /\ UNCHANGED serverVars

\* the POST of save s reaches the server
SaveArrives(s) ==
    /\ page.saves[s].pc = "sent"
    /\ PostAddresses(s, page.saves[s].body)

\* the answer to the POST of save s reaches the page: response.json(), which
\* throws on the framework's 500 page, and then fetchAddresses()
SaveAnswered(s) ==
    /\ page.saves[s].pc = "sent"
    /\ reqs[s].pc = "done"
    /\ reqs[s].status # Hang
    /\ page' = IF reqs[s].status = "500"
               THEN [page EXCEPT !.saves[s].pc = "threw"]
               ELSE [page EXCEPT !.saves[s].pc = "answered", !.fetches[s].pc = "sent"]
    /\ UNCHANGED serverVars

\* GET /api/addresses of fetch f is served
FetchServed(f) ==
    /\ page.fetches[f].pc = "sent"
    /\ page' = [page EXCEPT !.fetches[f] = [pc |-> "served", body |-> db.addresses]]
    /\ UNCHANGED serverVars

\* the answer of fetch f reaches the page: the working list is replaced and
\* the rows are rendered anew
FetchReceived(f) ==
    /\ page.fetches[f].pc = "served"
    /\ page' = Rendered([page EXCEPT !.currentAddresses = page.fetches[f].body,
                                     !.fetches[f] = [pc |-> "received", body |-> <<>>]])
    /\ UNCHANGED serverVars

\* the gestures of the admin
Gestures ==
    \/ \E street \in StreetInputs, instructions \in InstructionInputs :
           AddAddress(street, instructions)
    \/ \E i \in 1..Len(page.rows) : HandleEdit(i)
    \/ \E street \in StreetInputs \cup {page.form.street},
          instructions \in InstructionInputs \cup {page.form.instructions} :
           EditSave(street, instructions)
    \/ EditCancel
    \/ \E i \in 1..Len(page.rows), confirmed \in BOOLEAN : HandleDelete(i, confirmed)
    \/ \E i \in 1..Len(page.rows) : OpenLocationModal(i)
    \/ \E latlng \in MapClicks : MapClick(latlng)
    \/ CloseModal
    \/ SaveLocation

\* the requests of the page on their way
PageRequests ==
    \/ \E s \in Slots : SaveArrives(s)
    \/ \E s \in Slots : SaveAnswered(s)
    \/ \E f \in DOMAIN page.fetches : FetchServed(f)
    \/ \E f \in DOMAIN page.fetches : FetchReceived(f)

\* the routes of the site, one browser, one address request
Init == Started({1}, DefaultData, FALSE)

Next ==
    \/ \E u \in Usernames \cup {Absent}, p \in Passwords \cup {Absent} : SignIn(u, p)
    \/ SignOut
    \/ SessionExpires
    \/ WindowExpires
    \/ \E t \in RulesTexts \cup {Absent} : PostRules(t)
    \/ GetRules
    \/ \E c \in Passwords \cup {Absent}, n \in Passwords \cup {Absent} : PostChangePassword(c, n)
    \/ \E path \in Pages : GetPage(path)
    \/ \E s \in Slots, body \in GateBodies : PostAddresses(s, body)
    \/ AddressSteps(GeoOutcomes)

Spec == Init /\ [][Next]_vars

\* one batch of any list, by a signed-in admin
InitBatch == Started({1}, DefaultData, TRUE)

NextBatch ==
    \/ \E s \in Slots : reqs[s].pc = "idle" /\ \E list \in AllLists : PostAddresses(s, Body(list))
    \/ AddressSteps(GeoOutcomes)
    \/ GetAddresses

SpecBatch == InitBatch /\ [][NextBatch]_vars

\* two batches in flight together, with reads and a rules update
InitConc == Started({1, 2}, DefaultData, TRUE)

NextConc ==
    \/ \E s \in Slots, body \in ConcBodies : PostAddresses(s, body)
    \/ AddressSteps(ConcOutcomes)
    \/ GetAddresses
    \/ PostRules("Be kind")

SpecConc == InitConc /\ [][NextConc]_vars

\* a stored list is read and submitted again
InitRound ==
    \E stored \in AllLists : Started({1}, [DefaultData EXCEPT !.addresses = stored], TRUE)

NextRound ==
    \/ GetAddresses
    \/ \E s \in Slots : view.fetched /\ PostAddresses(s, Body(view.body))
    \/ AddressSteps(GeoOutcomes)

SpecRound == InitRound /\ [][NextRound]_vars

\* the admin page of a signed-in admin over a stored list: one save, with
\* every gesture and every answer
E1 == Address("1 Elm " \o AddLocationSuffix, Num(-34), Num(146), Absent)

E2 == Address("9 Oak " \o locationSuffix, Num(-34), Num(146), "ring twice")

StoredLists == {<<>>, <<E1>>, <<E1, E2>>}

AdminOutcomes == {GeoError, GeoData(<<Match("-34", "146")>>)}

InitAdmin ==
    /\ \E stored \in StoredLists :
           Started({1}, [DefaultData EXCEPT !.addresses = stored], TRUE)
    /\ entry = Part000

NextAdmin ==
    \/ Gestures
    \/ PageRequests
    \/ AddressSteps(AdminOutcomes)

SpecAdmin == InitAdmin /\ [][NextAdmin]_vars

\* the location picker over a stored list of two, with an Add or a Delete
\* before it: two saves, the geocoding service and the store answering well
InitPicker ==
    /\ Started({1, 2}, [DefaultData EXCEPT !.addresses = <<E1, E2>>], TRUE)
    /\ entry = Part000

NextPicker ==
    \/ AddAddress("7 Ash ", "")
    \/ \E i \in 1..Len(page.rows), confirmed \in BOOLEAN : HandleDelete(i, confirmed)
    \/ \E i \in 1..Len(page.rows) : OpenLocationModal(i)
    \/ \E latlng \in MapClicks : MapClick(latlng)
    \/ CloseModal
    \/ SaveLocation
    \/ PageRequests
    \/ \E s \in Slots : GeocodeResponse(s, GeoData(<<Match("-34", "146")>>))
    \/ \E s \in Slots : DelayElapsed(s)
    \/ \E s \in Slots : WriteDone(s, TRUE, "200")

SpecPicker == InitPicker /\ [][NextPicker]_vars

\* rows that have gone stale: a stored list of two, then Edit (saved as
\* filled), Delete and Set Location in any order over two saves, the
\* geocoding service and the store answering well
InitStale ==
    /\ Started({1, 2}, [DefaultData EXCEPT !.addresses = <<E1, E2>>], TRUE)
    /\ entry = Part000

NextStale ==
    \/ \E i \in 1..Len(page.rows) : HandleEdit(i)
    \/ EditSave(page.form.street, page.form.instructions)
    \/ EditCancel
    \/ \E i \in 1..Len(page.rows) : HandleDelete(i, TRUE)
    \/ \E i \in 1..Len(page.rows) : OpenLocationModal(i)
    \/ \E latlng \in MapClicks : MapClick(latlng)
    \/ CloseModal
    \/ SaveLocation
    \/ PageRequests
    \/ \E s \in Slots : GeocodeResponse(s, GeoData(<<Match("-34", "146")>>))
    \/ \E s \in Slots : DelayElapsed(s)
    \/ \E s \in Slots : WriteDone(s, TRUE, "200")

SpecStale == InitStale /\ [][NextStale]_vars

\* two transitions in succession: once the page has loaded, an Add and
\* Deletes over a stored list of one, no save answered before both are sent
InitSuccession ==
    /\ Started({1, 2}, [DefaultData EXCEPT !.addresses = <<E1>>], TRUE)
    /\ entry = Part000

NextSuccession ==
    \/ page.fetches[0].pc = "received" /\ AddAddress("7 Ash ", "")
    \/ \E i \in 1..Len(page.rows) : HandleDelete(i, TRUE)
    \/ \E s \in Slots : SaveArrives(s)
    \/ \E s \in Slots : FreeSlot = 0 /\ SaveAnswered(s)
    \/ \E f \in DOMAIN page.fetches : FetchServed(f)
    \/ \E f \in DOMAIN page.fetches : FetchReceived(f)
    \/ \E s \in Slots : GeocodeResponse(s, GeoData(<<Match("-34", "146")>>))
    \/ \E s \in Slots : DelayElapsed(s)
    \/ \E s \in Slots : WriteDone(s, TRUE, "200")

SpecSuccession == InitSuccession /\ [][NextSuccession]_vars

\* handlers interleaved: over a document with or without rules, an address
\* replacement, and rules updates and password changes handled while it
\* waits on geocoding
InitFrame ==
    \E rules \in RulesTexts : Started({1}, [DefaultData EXCEPT !.rules = rules], TRUE)

NextFrame ==
    \/ \E s \in Slots, body \in GateBodies : PostAddresses(s, body)
    \/ \E s \in Slots, t \in RulesTexts \cup {Absent} :
           reqs[s].pc \in {"fetch", "delay"} /\ PostRules(t)
    \/ \E s \in Slots, c \in Passwords, n \in Passwords :
           reqs[s].pc \in {"fetch", "delay"} /\ PostChangePassword(c, n)
    \/ AddressSteps(GeoOutcomes)

SpecFrame == InitFrame /\ [][NextFrame]_vars

(***************************************************************************)
(* Vocabulary of the properties                                            *)
(***************************************************************************)
\* the request passed the gate and the array test
Accepted(r) == r.pc # "idle" /\ r.status \notin {"401", "400"}

\* the loop of the request is over: its list is complete
LoopOver(r) == Accepted(r) /\ r.pc \in {"write", "done"}

\* the address has both coordinates / lacks one, as the data model counts
\* them: a number, 0 included, is a coordinate
HasBoth(a) == a.lat # NoNum /\ a.lon # NoNum

MissesCoordinate(a) == a.text # "" /\ ~HasBoth(a)

\* the calls of request r made for position k
CallsFor(r, k) == {j \in 1..Len(r.calls) : r.calls[j].idx = k}

SameCoordinates(a, b) == a.lat = b.lat /\ a.lon = b.lon

\* the call got no match: a rejected fetch or an empty result
Failed(c) == c.answered /\ (~c.out.ok \/ c.out.data = <<>>)

Matched(c) == c.answered /\ c.out.ok /\ c.out.data # <<>>

\* the password is the one the hash was made from
Verifies(pw, hash) == pw # Absent /\ hash = Hash(pw)

\* the exchange got past the session gate, where the program has one
PassedGate(x) == x.hadSession \/ ~HasSessions

\* the request was refused with an error answer and changed nothing
Refused(x) == x.status \in {"400", "401", "429"} /\ ~x.changed

\* in this step the page sends save s; it does so from the named control
Sent(s) == page.saves[s].pc = "none" /\ page'.saves[s].pc = "sent"

SentBy(kind, s) == Sent(s) /\ page'.saves[s].kind = kind

\* the save goes out with the whole working list as the step leaves it
WholeListSent(s) == page'.saves[s].body = Body(page'.currentAddresses)

\* in this step the answer of fetch f replaces the working list
Received(f) == page.fetches[f].pc = "served" /\ page'.fetches[f].pc = "received"

\* the working list changes in no step but one that sends a save or
\* receives a fetch
ChangesOnlyWithSaveOrFetch ==
    page'.currentAddresses # page.currentAddresses
        => ((\E s \in Slots : Sent(s)) \/ (\E f \in DOMAIN page.fetches : Received(f)))

\* the list without its entry at position i
Without(list, i) == [k \in 1..(Len(list) - 1) |-> IF k < i THEN list[k] ELSE list[k + 1]]

\* the same entry, its coordinates aside
SameEntry(a, b) == a.text = b.text /\ a.instructions = b.instructions

\* no request of the page is on its way
Quiescent ==
    /\ \A s \in Slots : page.saves[s].pc \in {"none", "answered", "threw"}
    /\ \A f \in DOMAIN page.fetches : page.fetches[f].pc \in {"none", "received"}

(***************************************************************************)
(* C1: a POST to /api/rules, /api/addresses or /api/change-password made   *)
(* without a session is answered 401 and changes nothing in the document.  *)
(***************************************************************************)
C1_UnauthenticatedPostRejected ==
    /\ (last.route \in {"/api/rules", "/api/change-password"} /\ ~last.hadSession)
           => (last.status = "401" /\ ~last.changed)
    /\ \A s \in Slots :
           (reqs[s].pc # "idle" /\ ~reqs[s].hadSession)
               => (reqs[s].pc = "done" /\ reqs[s].status = "401" /\ reqs[s].calls = <<>>)

\* the same, of the program of part_000 alone (holds)
C1_OnPart000 == entry = Part000 => C1_UnauthenticatedPostRejected

(***************************************************************************)
(* C2: GET /admin.html without a session is always answered with the       *)
(* redirect to the sign-in page, never with the page.                      *)
(***************************************************************************)
C2_AdminPageNeedsSession ==
    (last.route = "/admin.html" /\ ~last.hadSession) => last.status = "302"

(***************************************************************************)
(* C3: POST /signin redirects and leaves a session exactly when username   *)
(* and password are right; with a factor wrong or missing it answers 401   *)
(* and creates no session.                                                 *)
(***************************************************************************)
CredentialsRight(x) ==
    /\ x.username = ADMIN_USERNAME
    /\ x.password # Absent
    /\ BcryptCompare(x.password, db.adminPassword)

C3_SignInIffCredentials ==
    last.route = "/signin" =>
        IF CredentialsRight(last)
        THEN last.status = "302" /\ last.sessionAfter
        ELSE last.status = "401" /\ last.sessionAfter = last.hadSession

\* the same with the limiter's refusals and the missing password set aside,
\* of the program of part_000 alone (holds)
C3_OnPart000 ==
    (entry = Part000 /\ last.route = "/signin" /\ last.status # "429"
         /\ ~(last.username = ADMIN_USERNAME /\ last.password = Absent))
        => C3_SignInIffCredentials

(***************************************************************************)
(* C4: an address submitted with both lat and lon, whatever their numeric  *)
(* values, keeps exactly those coordinates and gets no geocode call.       *)
(***************************************************************************)
C4_CoordinatesKept ==
    \A s \in Slots :
        LET r == reqs[s]
            sub == r.body.addresses
        IN Accepted(r) =>
               \A k \in 1..Len(sub) :
                   HasBoth(sub[k]) =>
                       /\ CallsFor(r, k) = {}
                       /\ SameCoordinates(r.list[k], sub[k])
                       /\ LoopOver(r) => SameCoordinates(db.addresses[k], sub[k])

C6_OneCallPerMissingAddress ==
    \A s \in Slots :
        LET r == reqs[s]
            sub == r.body.addresses
        IN LoopOver(r) =>
               /\ \A k \in 1..Len(sub) :
                      Cardinality(CallsFor(r, k)) = IF MissesCoordinate(sub[k]) THEN 1 ELSE 0
               /\ \A j \in 1..Len(r.calls) :
                      Matched(r.calls[j]) =>
                          /\ db.addresses[r.calls[j].idx].lat = parseFloat(r.calls[j].out.data[1].lat)
                          /\ db.addresses[r.calls[j].idx].lon = parseFloat(r.calls[j].out.data[1].lon)

\* the same with "lacks lat or lon" read as the loop reads it (holds)
C6_AsTheLoopTests ==
    \A s \in Slots :
        LET r == reqs[s]
            sub == r.body.addresses
        IN LoopOver(r) =>
               \A k \in 1..Len(sub) :
                   Cardinality(CallsFor(r, k)) = IF needsGeocoding(sub[k]) THEN 1 ELSE 0

(***************************************************************************)
(* C7: two consecutive geocode calls of a batch are at least 1 second      *)
(* apart, whatever the outcome of the earlier one.                         *)
(***************************************************************************)
C7_CallsSpacedByDelay ==
    \A s \in Slots :
        \A j \in 1..(Len(reqs[s].calls) - 1) :
            reqs[s].calls[j + 1].at - reqs[s].calls[j].at >= delay

\* the same when the earlier call was answered, empty or not (holds)
C7_AfterAnAnswer ==
    \A s \in Slots :
        \A j \in 1..(Len(reqs[s].calls) - 1) :
            reqs[s].calls[j].out.ok => reqs[s].calls[j + 1].at - reqs[s].calls[j].at >= delay

(***************************************************************************)
(* C8: after a replaceAddresses answered with success, every stored        *)
(* address has both lat and lon or neither.                                *)
(***************************************************************************)
C8_BothOrNeither ==
    \A s \in Slots :
        (reqs[s].pc = "done" /\ reqs[s].status = "200") =>
            \A k \in 1..Len(db.addresses) :
                (db.addresses[k].lat = NoNum) <=> (db.addresses[k].lon = NoNum)

(***************************************************************************)
(* C9: under any interleaving, the stored list, and every list a read      *)
(* returns, is the first list or the complete list of one request as that  *)
(* request's own geocode answers processed it.                             *)
(***************************************************************************)
\* entry k of the list of r is entry k as submitted, with the first match of
\* r's own call for k when that call matched
ProcessedByOwnCalls(r) ==
    LET sub == r.body.addresses IN
    /\ Len(r.list) = Len(sub)
    /\ \A k \in 1..Len(sub) :
           \/ CallsFor(r, k) = {} /\ r.list[k] = sub[k]
           \/ \E j \in CallsFor(r, k) :
                  /\ CallsFor(r, k) = {j}
                  /\ r.calls[j].answered
                  /\ r.list[k] = IF r.calls[j].out.ok
                                 THEN ApplyGeoData(sub[k], r.calls[j].out.data)
                                 ELSE sub[k]

OneWholeSubmission(list) ==
    \/ list = DefaultData.addresses
    \/ \E s \in Slots : LoopOver(reqs[s]) /\ list = reqs[s].list /\ ProcessedByOwnCalls(reqs[s])

C9_StoredListIsWhole ==
    /\ OneWholeSubmission(db.addresses)
    /\ view.fetched => OneWholeSubmission(view.body)

\* one request is answered and its list stored and read, while the other is
\* in the middle of its loop with one of its two addresses geocoded
C9_Witness ==
    \E s, t \in Slots :
        /\ reqs[s].pc = "done" /\ reqs[s].status = "200"
        /\ reqs[t].pc = "fetch" /\ Len(reqs[t].calls) = 2 /\ Matched(reqs[t].calls[1])
        /\ db.addresses = reqs[s].list /\ db.addresses # <<>>
        /\ view.fetched /\ view.body = db.addresses
        /\ db.rules = "Be kind"

(***************************************************************************)
(* C10: submitting the list just read, when none of its addresses lacks a  *)
(* coordinate, leaves the stored list as it was, and a following read      *)
(* returns the same list.                                                  *)
(***************************************************************************)
C10_RoundTripChangesNothing ==
    \A s \in Slots :
        LET r == reqs[s]
            sub == r.body.addresses
        IN (Accepted(r) /\ \A k \in 1..Len(sub) : ~MissesCoordinate(sub[k]))
               => (db.addresses = sub /\ view.body = sub)

\* the same with "lacks a coordinate" read as the loop reads it (holds)
C10_AsTheLoopTests ==
    \A s \in Slots :
        LET r == reqs[s]
            sub == r.body.addresses
        IN (Accepted(r) /\ \A k \in 1..Len(sub) : ~needsGeocoding(sub[k]))
               => (db.addresses = sub /\ view.body = sub)

(***************************************************************************)
(* C11: a password change that got past the gate is refused, the stored    *)
(* hash staying as it was, when the new password is shorter than 8         *)
(* characters and when the current password does not verify; answered with *)
(* success, it leaves a hash that the new password verifies against and    *)
(* the old password does not.                                              *)
(***************************************************************************)
C11_ChangePassword ==
    (last.route = "/api/change-password" /\ PassedGate(last)) =>
        /\ (last.value # Absent /\ Len(last.value) < MinPasswordLength) => Refused(last)
        /\ ~Verifies(last.password, last.hashBefore) => Refused(last)
        /\ last.status = "200" =>
               /\ Verifies(last.value, db.adminPassword)
               /\ ~Verifies(last.password, db.adminPassword)

\* the same, the old password failing afterwards when the new one is another
C11_WhenNewDiffers ==
    (last.route = "/api/change-password" /\ PassedGate(last)) =>
        /\ (last.value # Absent /\ Len(last.value) < MinPasswordLength) => Refused(last)
        /\ ~Verifies(last.password, last.hashBefore) => Refused(last)
        /\ last.status = "200" =>
               /\ Verifies(last.value, db.adminPassword)
               /\ last.value # last.password => ~Verifies(last.password, db.adminPassword)

\* a change to another password answered with success, with a session
C11_Witness ==
    /\ last.route = "/api/change-password" /\ last.hadSession /\ last.status = "200"
    /\ last.value # last.password
    /\ last.hashBefore = Hash(last.password) /\ db.adminPassword = Hash(last.value)

SignedOut == last.route = "/api/signout" /\ last.status = "200"

C13_SignedOutLosesAccess ==
    [][entry = Part000 =>
         /\ (last' # last /\ last'.route = "/api/signout")
                => (last'.status = "200" /\ ~session' /\ db' = db)
         /\ (SignedOut /\ last' # last /\ last'.route \in GatedRoutes \cup {"/admin.html"})
                => last'.status \in {"401", "302"}
         /\ \A s \in Slots :
                (SignedOut /\ reqs[s].pc = "idle" /\ reqs'[s].pc # "idle")
                    => (reqs'[s].pc = "done" /\ reqs'[s].status = "401")]_vars

\* the same of the gated endpoints alone, the admin page left out (holds)
C13_GatedEndpoints ==
    [][entry = Part000 =>
         /\ (last' # last /\ last'.route = "/api/signout")
                => (last'.status = "200" /\ ~session' /\ db' = db)
         /\ (SignedOut /\ last' # last /\ last'.route \in GatedRoutes \ {"/admin.html"})
                => last'.status \in {"401", "302"}
         /\ \A s \in Slots :
                (SignedOut /\ reqs[s].pc = "idle" /\ reqs'[s].pc # "idle")
                    => (reqs'[s].pc = "done" /\ reqs'[s].status = "401")]_vars

(***************************************************************************)
(* C14: a setRules that got past the gate with a string, the empty string  *)
(* included, leaves exactly that string as the stored rules, which is what *)
(* getRules returns; the stored rules change by a setRules answered with   *)
(* success and by nothing else; a non-string is answered 400 and changes   *)
(* nothing.                                                                *)
(***************************************************************************)
C14_RulesStoredVerbatim ==
    /\ (last.route = "/api/rules" /\ PassedGate(last)) =>
           IF last.value # Absent
           THEN /\ db.rules = last.value
                /\ last.changed => last.status = "200"
           ELSE last.status = "400" /\ ~last.changed
    /\ last.route = "GET /api/rules" => last.value = db.rules

\* the same of the setRules whose store write resolves (holds)
C14_WhenWriteResolves ==
    /\ (last.route = "/api/rules" /\ PassedGate(last) /\ last.status \notin UnhandledRejection) =>
           IF last.value # Absent
           THEN db.rules = last.value /\ last.status = "200"
           ELSE last.status = "400" /\ ~last.changed
    /\ last.route = "GET /api/rules" => last.value = db.rules

(***************************************************************************)
(* C20: in the program of part_000, no request to an /api/ route is left   *)
(* without a response or answered with anything but JSON: a handler that   *)
(* fails answers with the envelope {success: false, message}.              *)
(***************************************************************************)
C20_EveryRequestAnswered ==
    entry = Part000 =>
        /\ (last.route \in {"/api/rules", "GET /api/rules", "/api/change-password", "/api/signout"})
               => last.status \notin UnhandledRejection
        /\ \A s \in Slots : reqs[s].pc = "done" => reqs[s].status \notin UnhandledRejection

(***************************************************************************)
(* C15: an Edit save replaces text (the street part typed, then the        *)
(* suffix) and instructions of the entry at the edited position and        *)
(* leaves every other entry as it is; it removes lat and lon of the entry  *)
(* when the new text differs from the old and keeps them when it does not; *)
(* the list goes out whole.                                                *)
(***************************************************************************)
C15_EditSave ==
    [][\A s \in Slots :
         SentBy("edit", s) =>
             LET i == page'.saves[s].index
                 old == page.currentAddresses
                 new == page'.currentAddresses
             IN /\ i \in 1..Len(old) /\ Len(new) = Len(old)
                /\ \A k \in 1..Len(old) : k # i => new[k] = old[k]
                /\ new[i].text = Trim(page'.saves[s].street) \o " " \o locationSuffix
                /\ new[i].instructions = OrUndefined(Trim(page'.saves[s].instructions))
                /\ IF new[i].text # old[i].text
                   THEN new[i].lat = NoNum /\ new[i].lon = NoNum
                   ELSE SameCoordinates(new[i], old[i])
                /\ WholeListSent(s)]_vars

\* an Edit save just sent that gave the first of two entries another street
\* and instructions and took its coordinates away
C15_Witness ==
    \E s \in Slots :
        /\ page.saves[s].pc = "sent" /\ page.saves[s].kind = "edit" /\ reqs[s].pc = "idle"
        /\ page.saves[s].index = 1
        /\ page.currentAddresses = page.saves[s].body.addresses
        /\ Len(page.currentAddresses) = 2
        /\ page.currentAddresses[1].text = "7 Ash " \o locationSuffix
        /\ page.currentAddresses[1].instructions = "ring twice"
        /\ ~HasBoth(page.currentAddresses[1])
        /\ page.currentAddresses[2] = E2

(***************************************************************************)
(* C16: a save of the admin page that has been answered is followed by a   *)
(* fetch of the list, which is made only after the answer; when no         *)
(* request of the page is on its way, its working list is the stored list. *)
(***************************************************************************)
C16_SaveThenRefetch ==
    /\ \A s \in Slots :
           /\ page.saves[s].pc \in {"answered", "threw"} => page.fetches[s].pc # "none"
           /\ page.fetches[s].pc # "none" => reqs[s].pc = "done"
    /\ Quiescent => page.currentAddresses = db.addresses

(***************************************************************************)
(* C17: Save Location sends a save only when a position has been picked    *)
(* on the map since the picker was opened; it then gives the picked        *)
(* position to the entry the picker was opened for and to no other, and    *)
(* the list goes out whole; without a save the working list stays as it    *)
(* is.                                                                     *)
(***************************************************************************)
C17_SetLocation ==
    [][/\ \A s \in Slots :
            SentBy("location", s) =>
                LET i == page.editingIndex IN
                /\ page.picked
                /\ SameEntry(page.currentAddresses[i], page.address)
                /\ page'.currentAddresses =
                       [page.currentAddresses EXCEPT ![i] =
                           [@ EXCEPT !.lat = page.currentMarker.lat, !.lon = page.currentMarker.lon]]
                /\ WholeListSent(s)
       /\ ChangesOnlyWithSaveOrFetch]_vars

\* the clause of the entry alone: the entry that gets the position is the
\* one the picker was opened for
C17_EntryOpenedFor ==
    [][\A s \in Slots :
         SentBy("location", s) => SameEntry(page.currentAddresses[page.editingIndex], page.address)]_vars

\* the clause of the picked position alone
C17_OnlyWhenPicked ==
    [][\A s \in Slots : SentBy("location", s) => page.picked]_vars

\* the same by position and marker: the entry at editingIndex gets the
\* position of the marker, picked or put there on opening (holds)
C17_AtEditingIndex ==
    [][/\ \A s \in Slots :
            SentBy("location", s) =>
                LET i == page.editingIndex IN
                /\ page.currentMarker # NoMarker
                /\ page'.currentAddresses =
                       [page.currentAddresses EXCEPT ![i] =
                           [@ EXCEPT !.lat = page.currentMarker.lat, !.lon = page.currentMarker.lon]]
                /\ WholeListSent(s)
       /\ ChangesOnlyWithSaveOrFetch]_vars

(***************************************************************************)
(* C18: Add sends a save only for an input that is not empty once          *)
(* trimmed; it then appends one entry at the end (text: the trimmed input, *)
(* a space, the suffix; the instructions typed, if any; no lat, no lon),   *)
(* keeps the entries before it, and the list goes out whole; without a     *)
(* save the working list stays as it is.                                   *)
(***************************************************************************)
C18_Add ==
    [][/\ \A s \in Slots :
            SentBy("add", s) =>
                LET street == Trim(page'.saves[s].street)
                    instructions == Trim(page'.saves[s].instructions)
                IN /\ street # ""
                   /\ page'.currentAddresses =
                          Append(page.currentAddresses,
                                 Address(street \o " " \o AddLocationSuffix, NoNum, NoNum,
                                         IF instructions = "" THEN Absent ELSE instructions))
                   /\ WholeListSent(s)
       /\ ChangesOnlyWithSaveOrFetch]_vars

\* an Add just sent that put a second entry, with instructions, after E1
C18_Witness ==
    \E s \in Slots :
        /\ page.saves[s].pc = "sent" /\ page.saves[s].kind = "add" /\ reqs[s].pc = "idle"
        /\ page.currentAddresses = page.saves[s].body.addresses
        /\ page.currentAddresses =
               <<E1, Address("7 Ash " \o AddLocationSuffix, NoNum, NoNum, "ring twice")>>

(***************************************************************************)
(* C19: Delete sends a save only when the admin has confirmed; it then     *)
(* removes the entry at the chosen position, keeps the others in their     *)
(* order, and the list goes out whole; without a save the working list     *)
(* stays as it is.                                                         *)
(***************************************************************************)
C19_Delete ==
    [][/\ \A s \in Slots :
            SentBy("delete", s) =>
                LET i == page'.saves[s].index IN
                /\ page'.saves[s].confirmed
                /\ i \in 1..Len(page.currentAddresses)
                /\ page'.currentAddresses = Without(page.currentAddresses, i)
                /\ WholeListSent(s)
       /\ ChangesOnlyWithSaveOrFetch]_vars

\* a Delete just sent that took the first of two entries away
C19_Witness ==
    \E s \in Slots :
        /\ page.saves[s].pc = "sent" /\ page.saves[s].kind = "delete" /\ reqs[s].pc = "idle"
        /\ page.saves[s].index = 1 /\ page.saves[s].confirmed
        /\ page.rows = <<E1, E2>>
        /\ page.currentAddresses = <<E2>>
        /\ page.saves[s].body = Body(<<E2>>)

(***************************************************************************)
(* C21: in the program of part_000, a rules update, an address replacement *)
(* or a password change whose store write fails is answered with a 500     *)
(* and leaves the document as it was before the request: the rules, the    *)
(* addresses and the password hash that later reads meet are the old ones. *)
(***************************************************************************)
C21_FailedWriteChangesNothing ==
    entry = Part000 =>
        /\ (last.route \in {"/api/rules", "/api/change-password"} /\ last.status \in UnhandledRejection)
               => (last.status = "500" /\ ~last.changed /\ db.adminPassword = last.hashBefore)
        /\ \A s \in Slots :
               (reqs[s].pc = "done" /\ Accepted(reqs[s]) /\ ~reqs[s].written)
                   => (reqs[s].status = "500" /\ db.addresses = DefaultData.addresses)

(***************************************************************************)
(* C22: in the program of part_000, a sign-in that fails is answered the   *)
(* same whichever factor is wrong: the answer is the 401 (or, past the     *)
(* limit, the limiter's 429) and depends on nothing else of the attempt;   *)
(* the session stays as it was and nothing is stored.                      *)
(***************************************************************************)
C22_FailedSignInUniform ==
    (entry = Part000 /\ last.route = "/signin" /\ ~CredentialsRight(last))
        => /\ last.status = IF last.nth > max THEN "429" ELSE "401"
           /\ last.sessionAfter = last.hadSession
           /\ ~last.changed

\* the same of the attempts that do not pair the right username with a
\* missing password (holds)
C22_WhenPasswordSent ==
    (last.username = ADMIN_USERNAME /\ last.password = Absent) \/ C22_FailedSignInUniform

\* the two are one entry of the list: the same street, whatever was done to
\* its suffix, instructions and coordinates since it was rendered
SameStreet(a, b) ==
    a.text # Absent /\ b.text # Absent /\ StreetPart(a.text) = StreetPart(b.text)

\* in this step the picker is opened
Opened == ~page.modal /\ page'.modal

(***************************************************************************)
(* C23: an Edit save, a Delete and a Set Location act on the entry that    *)
(* the row clicked displays: the entry the Edit save rewrites and the      *)
(* entry the Delete removes are the entry of that row as rendered; the     *)
(* picker is opened for the entry of the row as rendered and Save Location *)
(* gives the position to that entry.                                       *)
(***************************************************************************)
C23_ActsOnRowClicked ==
    [][/\ \A s \in Slots :
            (SentBy("edit", s) \/ SentBy("delete", s))
                => LET i == page'.saves[s].index
                   IN SameStreet(page.currentAddresses[i], page.rows[i])
       /\ Opened => SameStreet(page'.address, page.rows[page'.editingIndex])
       /\ \A s \in Slots :
            SentBy("location", s)
                => SameStreet(page.currentAddresses[page.editingIndex], page.address)]_vars

\* the same while the rows show the working list (holds)
C23_WhileRowsAreCurrent ==
    [][page.rows = page.currentAddresses =>
         /\ \A s \in Slots :
              (SentBy("edit", s) \/ SentBy("delete", s))
                  => LET i == page'.saves[s].index
                     IN SameStreet(page.currentAddresses[i], page.rows[i])
         /\ Opened => SameStreet(page'.address, page.rows[page'.editingIndex])]_vars

\* the list is the one submitted, entry by entry, whatever coordinates the
\* server has given its entries
AsSubmitted(list, body) ==
    /\ Len(list) = Len(body.addresses)
    /\ \A k \in 1..Len(list) : SameEntry(list[k], body.addresses[k])

\* both saves have been answered and every fetch of the page received
BothCompleted ==
    /\ \A s \in Slots : page.saves[s].pc = "answered"
    /\ \A f \in DOMAIN page.fetches : page.fetches[f].pc = "received"

(***************************************************************************)
(* C24: after two transitions made in succession, the second before the    *)
(* first save was answered, and once both saves and their re-fetches have  *)
(* completed, the stored list is the list the second transition submitted, *)
(* and the working list of the page is the stored list.                    *)
(***************************************************************************)
C24_LaterSaveWins ==
    BothCompleted =>
        /\ AsSubmitted(db.addresses, page.saves[2].body)
        /\ page.currentAddresses = db.addresses

\* whatever the order, the stored list is one of the two lists submitted (holds)
C24_OneOfTheTwo ==
    BothCompleted => \E s \in Slots : AsSubmitted(db.addresses, page.saves[s].body)

\* in this step the edit form is saved with both inputs as handleEdit
\* filled them
SavedAsFilled(s) ==
    /\ SentBy("edit", s)
    /\ page'.saves[s].street = page.form.street
    /\ page'.saves[s].instructions = page.form.instructions

\* the text is a street, then the suffix once, as Add or as Edit writes it
MadeByAdd(text) == \E w \in Words : w # "" /\ text = w \o " " \o AddLocationSuffix

MadeByEdit(text) == \E w \in Words : text = w \o " " \o locationSuffix

(***************************************************************************)
(* C25: an Edit save with both inputs left as they were filled leaves the  *)
(* text and the coordinates of the entry as they were, for a text made by  *)
(* Add as for one made by an earlier Edit, and the text saved ends with    *)
(* the suffix exactly once.                                                *)
(***************************************************************************)
C25_SaveUnchanged ==
    [][\A s \in Slots :
         SavedAsFilled(s) =>
             LET i == page'.saves[s].index
                 old == page.currentAddresses[i]
                 new == page'.currentAddresses[i]
             IN /\ new.text = old.text
                /\ SameCoordinates(new, old)
                /\ MadeByAdd(new.text) \/ MadeByEdit(new.text)]_vars

\* the same of an entry whose text was made by an earlier Edit; and the
\* text saved ends with the suffix once whatever the entry (holds)
C25_OnEditedTexts ==
    [][\A s \in Slots :
         SavedAsFilled(s) =>
             LET i == page'.saves[s].index
                 old == page.currentAddresses[i]
                 new == page'.currentAddresses[i]
             IN /\ MadeByEdit(old.text) => (new.text = old.text /\ SameCoordinates(new, old))
                /\ MadeByEdit(new.text)]_vars

\* in this step the request of slot s ends its loop and assigns its list
Stores(s) == reqs[s].pc # "write" /\ reqs'[s].pc = "write"

(***************************************************************************)
(* C26: every mutation changes its own field of the document and no        *)
(* other: the rules change only by a rules update, which leaves addresses  *)
(* and password hash as they are; the hash changes only by a password      *)
(* change, which leaves addresses and rules; the addresses change only     *)
(* when an address replacement assigns its list, which leaves rules and    *)
(* hash.  So what a rules update or a password change answered with        *)
(* success has set is still in the document when an address replacement    *)
(* that was waiting on geocoding is stored.                                *)
(***************************************************************************)
C26_Frame ==
    [][/\ db'.rules # db.rules
            => (last'.route = "/api/rules" /\ db' = [db EXCEPT !.rules = last'.value])
       /\ db'.adminPassword # db.adminPassword
            => (last'.route = "/api/change-password"
                    /\ db' = [db EXCEPT !.adminPassword = Hash(last'.value)])
       /\ db'.addresses # db.addresses
            => \E s \in Slots : Stores(s) /\ db' = [db EXCEPT !.addresses = reqs'[s].list]
       /\ (last' # last /\ last'.route = "/api/rules" /\ last'.status = "200")
            => db' = [db EXCEPT !.rules = last'.value]
       /\ (last' # last /\ last'.route = "/api/change-password" /\ last'.status = "200")
            => db' = [db EXCEPT !.adminPassword = Hash(last'.value)]
       /\ (last'.route = "/api/rules" /\ last'.status = "200") => db'.rules = last'.value
       /\ (last'.route = "/api/change-password" /\ last'.status = "200")
            => db'.adminPassword = Hash(last'.value)]_vars

\* an address replacement stored and answered after a password change and
\* then a rules update were handled while it waited on geocoding: its
\* geocoded list, the new hash and the new rules are all in the document
C26_Witness ==
    \E s \in Slots :
        /\ reqs[s].pc = "done" /\ reqs[s].written /\ reqs[s].status = "200"
        /\ Len(reqs[s].calls) > 0
        /\ db.addresses = reqs[s].list
        /\ db.addresses = <<Address("a", Num(-34), Num(146), Absent)>>
        /\ last.route = "/api/rules" /\ last.status = "200" /\ last.value = "Be kind"
        /\ db.rules = "Be kind"
        /\ db.adminPassword = Hash("trickortreat")

====
